---- MODULE Spec2Model ----
(***************************************************************************)
(* Model of src/compress_pdf/app.py: the batch PDF compressor.             *)
(*                                                                         *)
(* A path is a sequence of names; a name is the sequence of its            *)
(* dot-separated parts, so "a.tmp.pdf" is <<"a","tmp","pdf">>.  The file   *)
(* system is the pair (files, dirs): files maps the path of every regular  *)
(* file to its content, dirs is the set of directories.  The worker thread *)
(* (App._worker) is a process with a program counter; the Tk main loop     *)
(* runs the handlers start, stop, _poll_log_queue and the option widgets.  *)
(* The log text widget is write-only display state and is not modelled.    *)
(***************************************************************************)
EXTENDS Integers, Sequences, FiniteSets, TLC

\* ------------------------------------------------------------------ bounds
MaxSize == 2
MaxRuns == 1

\* ------------------------------------------------------------------- paths
IN_DIR  == << <<"in">> >>
OUT_DIR == << <<"out">> >>
SUB     == <<"sub">>
A_PDF   == <<"a", "pdf">>
B_PDF   == <<"b", "pdf">>
A_TMP_PDF == <<"a", "tmp", "pdf">>
COMPRESSED == <<"_compressed">>
TMP_SUFFIX == <<"tmp", "pdf">>

Parent(p) == SubSeq(p, 1, Len(p) - 1)
Name(p) == p[Len(p)]
IsPrefix(d, p) == Len(d) <= Len(p) /\ SubSeq(p, 1, Len(d)) = d
Ancestors(p) == {SubSeq(p, 1, k) : k \in 1..(Len(p) - 1)}

\* str.lower() on one part of a name
lower(s) == IF s = "PDF" THEN "pdf" ELSE s

\* PurePath.suffix: the last part, when the last dot is neither the first
\* character of the name nor its last one
suffix(n) ==
    IF Len(n) > 1 /\ ~(Len(n) = 2 /\ n[1] = "") /\ n[Len(n)] # ""
    THEN <<n[Len(n)]>> ELSE <<>>

\* PurePath.with_suffix(".tmp.pdf") on the last name of a path
with_suffix(p, suf) ==
    LET n == Name(p)
        stem == IF suffix(n) = <<>> THEN n ELSE SubSeq(n, 1, Len(n) - 1)
    IN  Parent(p) \o <<stem \o suf>>

\* fn.lower().endswith(".pdf")
endswith_pdf(n) == Len(n) >= 2 /\ lower(n[Len(n)]) = "pdf"
\* fn.suffix.lower() == ".pdf"
suffix_is_pdf(n) == suffix(n) # <<>> /\ lower(suffix(n)[1]) = "pdf"

\* pdf_path.relative_to(input_root)
relative_to(p, root) == SubSeq(p, Len(root) + 1, Len(p))

\* ---------------------------------------------------------------- contents
\* A content is what a file holds: kind "orig" is an input document, "gs" a
\* result written by the external tool from the document id (gen counts
\* the tool passes), "part" a file some writer has opened and not finished,
\* "old" an output left by an earlier session, "other" anything else.
Content(k, i, g, s) == [kind |-> k, id |-> i, gen |-> g, size |-> s]
Complete(c) == c.kind # "part"

\* what Ghostscript writes when it turns content c into s bytes
GsResult(c, s) == Content("gs", c.id, c.gen + 1, s)
\* a copy of c that shutil.copy2 has started and not finished
Partial(c) == Content("part", c.id, c.gen, 0)

Remove(f, p) == [q \in DOMAIN f \ {p} |-> f[q]]
Put(f, p, c) == [q \in DOMAIN f \cup {p} |-> IF q = p THEN c ELSE f[q]]

\* ------------------------------------------------------------------- state
VARIABLES
    files, dirs,                 \* the file system
    input_dir, output_dir,       \* tk.StringVar: the two path entries
    recursive, overwrite,        \* tk.BooleanVar: the two check boxes
    btn_start, btn_stop,         \* state of the Start and Stop buttons
    progress_value, progress_maximum,
    log_q,                       \* queue.Queue of <<kind, payload>> events
    stop_flag,                   \* threading.Event
    pc,                          \* where the worker thread is
    in_root, out_dir, pdfs,      \* arguments of _worker
    i, ok, skipped, failed, total_in_bytes, total_out_bytes,
    rc, in_size, out_tmp_size,   \* locals of _worker
    runs,                        \* how often start has launched a worker
    \* history of the run, read by the properties only
    redirected, reached, invoked, pre, ow_read, tool, outcomes, done_put,
    ow_start,                    \* the overwrite box when the run was started
    prev                         \* the previous run and the disk it left

fsVars == <<files, dirs>>
uiVars == <<input_dir, output_dir, recursive, overwrite, btn_start, btn_stop,
            progress_value, progress_maximum>>
argVars == <<in_root, out_dir, pdfs>>
countVars == <<ok, skipped, failed, total_in_bytes, total_out_bytes>>
jobVars == <<rc, in_size, out_tmp_size>>
histVars == <<redirected, reached, invoked, pre, ow_read, tool, outcomes, done_put,
              ow_start, prev>>
vars == <<fsVars, uiVars, log_q, stop_flag, pc, argVars, i, countVars, jobVars,
          runs, histVars>>

\* ------------------------------------------------------------- file system
exists(p) == p \in DOMAIN files \/ p \in dirs
is_file(p) == p \in DOMAIN files
is_dir(p) == p \in dirs
st_size(p) == files[p].size

\* Path.mkdir(parents=True, exist_ok=True): raises when the path or one of
\* its ancestors is a regular file
mkdir_raises(p) == \E q \in Ancestors(p) \cup {p} : is_file(q)
mkdir(p) == dirs \cup Ancestors(p) \cup {p}

\* every ordering of a finite set
Perms(S) ==
    {s \in [1..Cardinality(S) -> S] : \A x \in S : \E k \in DOMAIN s : s[k] = x}

\* os.walk(top): the files of a directory in listing order (which the OS
\* chooses), then each subdirectory in turn, top-down
RECURSIVE os_walk(_), walk_dirs(_)
os_walk(d) ==
    LET here == {p \in DOMAIN files : Parent(p) = d /\ endswith_pdf(Name(p))}
        subs == {q \in dirs : Len(q) = Len(d) + 1 /\ Parent(q) = d}
    IN  UNION {{fo \o rest : rest \in walk_dirs(so)} :
                  fo \in Perms(here), so \in Perms(subs)}
walk_dirs(ds) ==
    IF ds = <<>> THEN {<<>>}
    ELSE {x \o y : x \in os_walk(Head(ds)), y \in walk_dirs(Tail(ds))}

\* list_pdfs: the orders in which the generator can yield the PDFs
list_pdfs(input, rec) ==
    IF rec THEN os_walk(input)
    ELSE Perms({p \in DOMAIN files : Parent(p) = input /\ suffix_is_pdf(Name(p))})

\* safe_output_path: the mapped path; its mkdir is part of WorkerMap
safe_output_path(output_root, input_root, pdf_path) ==
    output_root \o relative_to(pdf_path, input_root)

out_pdf == safe_output_path(out_dir, in_root, pdfs[i])
tmp_out == with_suffix(out_pdf, TMP_SUFFIX)

\* -------------------------------------------------------------------- Init
\* the documents the user has put under the input folder
DOC_A == Content("orig", 1, 0, 2)
DOC_B == Content("orig", 2, 0, 0)
DOC_C == Content("orig", 3, 0, 1)
OLD_A == Content("old", 1, 0, 1)
NOT_A_DIR == Content("other", 0, 0, 1)

IN_A == IN_DIR \o <<A_PDF>>
IN_B == IN_DIR \o <<SUB, B_PDF>>
IN_C == IN_DIR \o <<A_TMP_PDF>>
FOLDER_A == IN_A :> DOC_A
FOLDER_AB == IN_A :> DOC_A @@ IN_B :> DOC_B
FOLDER_AC == IN_A :> DOC_A @@ IN_C :> DOC_C
\* what else the disk holds before the session: an output of an earlier
\* session, a regular file where a subfolder will be needed, an output that
\* an earlier session redirected into the input folder
OLD_OUT == (OUT_DIR \o <<A_PDF>>) :> OLD_A
BLOCKED == (OUT_DIR \o <<SUB>>) :> NOT_A_DIR
OLD_REDIRECTED == (IN_DIR \o <<COMPRESSED, A_PDF>>) :> OLD_A

Session(f, inp, out, rec) == [files |-> f, input |-> inp, output |-> out, rec |-> rec]

\* the disks and selections a session starts from
Sessions ==
    { Session(FOLDER_AB @@ extra, IN_DIR, OUT_DIR, TRUE) :
          extra \in {<<>>, OLD_OUT, BLOCKED} }
    \cup { Session(FOLDER_A @@ extra, IN_DIR, IN_DIR, rec) :
          extra \in {<<>>, OLD_REDIRECTED}, rec \in BOOLEAN }
    \cup { Session(FOLDER_AB @@ OLD_OUT, IN_DIR, OUT_DIR, FALSE) }
    \cup { Session(FOLDER_AB, IN_A, out, FALSE) : out \in {IN_DIR, OUT_DIR} }
    \cup { Session(FOLDER_AC, IN_DIR, OUT_DIR, TRUE) }

InitFrom(sessions) ==
    /\ \E s \in sessions :
          /\ files = s.files
          /\ dirs = {IN_DIR, OUT_DIR} \cup UNION {Ancestors(p) : p \in DOMAIN s.files}
          /\ input_dir = s.input
          /\ output_dir = s.output
          /\ recursive = s.rec
    /\ overwrite = TRUE
    /\ btn_start = "normal" /\ btn_stop = "disabled"
    /\ progress_value = 0 /\ progress_maximum = 0
    /\ log_q = <<>>
    /\ stop_flag = FALSE
    /\ pc = "none"
    /\ in_root = <<>> /\ out_dir = <<>> /\ pdfs = <<>>
    /\ i = 0 /\ ok = 0 /\ skipped = 0 /\ failed = 0
    /\ total_in_bytes = 0 /\ total_out_bytes = 0
    /\ rc = 0 /\ in_size = 0 /\ out_tmp_size = 0
    /\ runs = 0
    /\ redirected = FALSE /\ reached = 0 /\ invoked = <<>> /\ pre = <<>>
    /\ ow_read = TRUE /\ tool = <<>> /\ outcomes = <<>>
    /\ done_put = 0
    /\ ow_start = TRUE /\ prev = <<>>

Init == InitFrom(Sessions)

\* worker_thread and worker_thread.is_alive()
in_job == pc \in {"map", "invoke", "check", "copy", "copying", "rename"}
is_alive == pc = "loop" \/ in_job

\* ------------------------------------------------------- control surface
\* _validate: None, or the tuple it returns with the redirect it applied
\* (Ghostscript is taken to be installed; resolve() is the identity on the
\* absolute, link-free paths of this model)
_validate ==
    LET in_path == input_dir
        isf == is_file(in_path)
        comp_target == IF isf THEN Parent(in_path) ELSE in_path
        same == comp_target = output_dir
        derived == comp_target \o <<COMPRESSED>>
    IN  IF ~exists(in_path) THEN [valid |-> FALSE]
        ELSE IF isf /\ ~suffix_is_pdf(Name(in_path)) THEN [valid |-> FALSE]
        ELSE IF ~isf /\ ~is_dir(in_path) THEN [valid |-> FALSE]
        ELSE IF ~is_dir(output_dir) THEN [valid |-> FALSE]
        ELSE [valid |-> TRUE, in_path |-> in_path, is_file |-> isf,
              out_dir |-> IF same THEN derived ELSE output_dir,
              made |-> same /\ ~mkdir_raises(derived),
              shown |-> IF same /\ ~mkdir_raises(derived)
                        THEN derived ELSE output_dir]

\* start: the Start button's handler, in a session of at most limit runs
start_run(limit) ==
    /\ btn_start = "normal"
    /\ ~is_alive
    /\ runs < limit
    /\ LET v == _validate IN
       /\ v.valid
       /\ dirs' = IF v.made THEN mkdir(v.out_dir) ELSE dirs
       /\ output_dir' = v.shown
       /\ \E listing \in (IF v.is_file THEN {<<v.in_path>>}
                          ELSE list_pdfs(v.in_path, recursive)) :
            IF listing = <<>>
            THEN UNCHANGED <<files, input_dir, recursive, overwrite, btn_start,
                             btn_stop, progress_value, progress_maximum, log_q,
                             stop_flag, pc, argVars, i, countVars, jobVars,
                             runs, histVars>>
            ELSE /\ stop_flag' = FALSE
                 /\ progress_value' = 0
                 /\ progress_maximum' = Len(listing)
                 /\ btn_start' = "disabled"
                 /\ btn_stop' = "normal"
                 /\ in_root' = (IF v.is_file THEN Parent(v.in_path) ELSE v.in_path)
                 /\ out_dir' = v.out_dir
                 /\ pdfs' = listing
                 /\ pc' = "loop"
                 /\ i' = 1 /\ ok' = 0 /\ skipped' = 0 /\ failed' = 0
                 /\ total_in_bytes' = 0 /\ total_out_bytes' = 0
                 /\ runs' = runs + 1
                 /\ redirected' = (v.out_dir # output_dir)
                 /\ reached' = 0
                 /\ pre' = <<>> /\ ow_read' = TRUE /\ tool' = <<>>
                 /\ invoked' = [k \in 1..Len(listing) |-> 0]
                 /\ outcomes' = <<>>
                 /\ done_put' = 0
                 /\ ow_start' = overwrite
                 /\ prev' = (IF runs = 0 THEN <<>>
                             ELSE [pdfs |-> pdfs, out_dir |-> out_dir,
                                   outcomes |-> outcomes, files |-> files,
                                   counts |-> <<ok, skipped, failed>>])
                 /\ UNCHANGED <<files, input_dir, recursive, overwrite, log_q,
                                jobVars>>

start == start_run(MaxRuns)

\* stop: the Stop button's handler
stop ==
    /\ btn_stop = "normal"
    /\ stop_flag' = TRUE
    /\ UNCHANGED <<fsVars, uiVars, log_q, pc, argVars, i, countVars, jobVars,
                   runs, histVars>>

\* the "Overwrite if exists" check box
toggle_overwrite ==
    /\ overwrite' = ~overwrite
    /\ UNCHANGED <<fsVars, input_dir, output_dir, recursive, btn_start, btn_stop,
                   progress_value, progress_maximum, log_q, stop_flag, pc,
                   argVars, i, countVars, jobVars, runs, histVars>>

\* what _poll_log_queue leaves in the progress bar after draining q
RECURSIVE last_progress(_, _)
last_progress(q, v) ==
    IF q = <<>> THEN v
    ELSE last_progress(Tail(q), IF Head(q)[1] = "progress" THEN Head(q)[2] ELSE v)

has_done(q) == \E k \in DOMAIN q : q[k][1] = "done"

\* _poll_log_queue: drains the queue (scheduled every 100 ms)
_poll_log_queue ==
    /\ log_q # <<>>
    /\ log_q' = <<>>
    /\ progress_value' = last_progress(log_q, progress_value)
    /\ btn_start' = (IF has_done(log_q) THEN "normal" ELSE btn_start)
    /\ btn_stop' = (IF has_done(log_q) THEN "disabled" ELSE btn_stop)
    /\ UNCHANGED <<fsVars, input_dir, output_dir, recursive, overwrite,
                   progress_maximum, stop_flag, pc, argVars, i, countVars,
                   jobVars, runs, histVars>>

\* ------------------------------------------------------------ the worker
\* compress_pdf: what one run of the external tool can report and leave at
\* its output path: <<return code, size of the file written>>, -1 for no file
ToolOutcomes ==
    {<<1, -1>>, <<1, 1>>, <<0, -1>>, <<0, 0>>} \cup {<<0, s>> : s \in 1..MaxSize}

compress_pdf(f, in_pdf, out, res) ==
    IF res[2] < 0 THEN f ELSE Put(f, out, GsResult(f[in_pdf], res[2]))

\* best-effort removal of the temporary file (lines 317-321, 359-363, 369-373);
\* it fails, silently, only where the same unlink has just failed
unlink_quietly(f, p, fails) == IF p \in DOMAIN f /\ ~fails THEN Remove(f, p) ELSE f

\* a skip test that has lost its "not"
skip_test_no_not(out_exists, ow) == out_exists /\ ow
\* line 309: the file is skipped
skip_test(out_exists, ow) == out_exists /\ ~ow

\* line 324: the tool's result is usable
tool_succeeded(code, f, tmp) == code = 0 /\ tmp \in DOMAIN f /\ f[tmp].size > 0

\* the comparison of line 331 turned round, and with > for >=
copy_fallback_reversed(tmp_size, insz) == tmp_size <= insz /\ insz > 0
copy_fallback_strict(tmp_size, insz) == tmp_size > insz /\ insz > 0
\* line 331: keep the original instead of the tool's result
copy_fallback(tmp_size, insz) == tmp_size >= insz /\ insz > 0

\* a copy-fallback that books the size of the temporary file
copied_bytes_of_tmp(insz, tmp_size) == tmp_size
\* line 337: the output bytes booked for a copy-fallback
copied_bytes(insz, tmp_size) == insz

\* the size of the complete file the job has put at its output path, or -1
made_size(kind, f) ==
    IF out_pdf \in DOMAIN f /\ Complete(f[out_pdf])
       /\ (kind \in {"copied", "compressed"}
             \/ out_pdf \notin DOMAIN pre \/ pre[out_pdf] # f[out_pdf])
    THEN f[out_pdf].size ELSE -1

\* the job is over: line 375 (or 313) and the next iteration
next_job(kind, f) ==
    /\ i' = i + 1
    /\ pc' = "loop"
    /\ rc' = 0 /\ in_size' = 0 /\ out_tmp_size' = 0
    /\ outcomes' = Append(outcomes,
          [idx |-> i, kind |-> kind, pdf |-> pdfs[i], out |-> out_pdf,
           insz |-> IF pdfs[i] \in DOMAIN pre THEN pre[pdfs[i]].size ELSE -1,
           made |-> made_size(kind, f), tool |-> tool,
           ow |-> IF pc = "map" THEN overwrite ELSE ow_read])

\* lines 356-363: the except branch of the promotion, then line 375
on_exception(kind, f, cleanup_fails) ==
    /\ files' = unlink_quietly(f, tmp_out, cleanup_fails)
    /\ failed' = failed + 1
    /\ log_q' = log_q \o << <<"log", "FAIL">>, <<"progress", i>> >>
    /\ next_job(kind, unlink_quietly(f, tmp_out, cleanup_fails))

\* lines 303-305: the loop takes the next file unless stop was requested
WorkerLoop ==
    /\ pc = "loop" /\ i <= Len(pdfs) /\ ~stop_flag
    /\ pc' = "map"
    /\ reached' = reached + 1
    /\ pre' = files
    /\ tool' = <<>>
    /\ UNCHANGED <<fsVars, uiVars, log_q, stop_flag, argVars, i, countVars, jobVars,
                   runs, redirected, invoked, ow_read, outcomes, done_put,
                   ow_start, prev>>

\* lines 307-321: the mapped path and its folder, the skip test and the
\* removal of a stale temporary file
WorkerMap ==
    /\ pc = "map"
    /\ ow_read' = overwrite
    /\ IF mkdir_raises(Parent(out_pdf))
       THEN \* the exception leaves _worker: the thread ends
            /\ pc' = "crashed"
            /\ UNCHANGED <<fsVars, log_q, i, countVars, jobVars, outcomes>>
       ELSE /\ dirs' = mkdir(Parent(out_pdf))
            /\ IF skip_test(exists(out_pdf), overwrite)
               THEN /\ skipped' = skipped + 1
                    /\ log_q' = log_q \o << <<"progress", i>>, <<"log", "SKIP">> >>
                    /\ next_job("skipped", files)
                    /\ UNCHANGED <<files, ok, failed, total_in_bytes,
                                   total_out_bytes>>
               ELSE /\ files' = unlink_quietly(files, tmp_out, FALSE)
                    /\ pc' = "invoke"
                    /\ UNCHANGED <<log_q, i, countVars, jobVars, outcomes>>
    /\ UNCHANGED <<uiVars, stop_flag, argVars, runs, redirected, reached, invoked,
                   pre, tool, done_put, ow_start, prev>>

\* line 323: the external tool runs and returns
WorkerInvoke ==
    /\ pc = "invoke"
    /\ \E res \in ToolOutcomes :
         /\ pdfs[i] \notin DOMAIN files => res = <<1, -1>>
         /\ rc' = res[1]
         /\ tool' = res
         /\ files' = compress_pdf(files, pdfs[i], tmp_out, res)
    /\ invoked' = [invoked EXCEPT ![i] = @ + 1]
    /\ pc' = "check"
    /\ UNCHANGED <<dirs, uiVars, log_q, stop_flag, argVars, i, countVars, in_size,
                   out_tmp_size, runs, redirected, reached, pre, ow_read, outcomes,
                   done_put, ow_start, prev>>

\* lines 324-333 and 343-346, or 364-375: the test of the tool's result, the
\* two sizes, the choice of the branch and the removal of the old output
WorkerCheck ==
    /\ pc = "check"
    /\ IF ~tool_succeeded(rc, files, tmp_out)
       THEN /\ files' = unlink_quietly(files, tmp_out, FALSE)
            /\ failed' = failed + 1
            /\ log_q' = log_q \o << <<"log", "FAIL">>, <<"progress", i>> >>
            /\ next_job("failed_tool", unlink_quietly(files, tmp_out, FALSE))
            /\ UNCHANGED <<ok, skipped, total_in_bytes, total_out_bytes>>
       ELSE \/ \* pdf.stat() raises
               /\ on_exception("failed_stat", files, FALSE)
               /\ UNCHANGED <<ok, skipped, total_in_bytes, total_out_bytes>>
            \/ \* out_pdf.unlink() raises
               /\ pdfs[i] \in DOMAIN files
               /\ is_file(out_pdf)
               /\ total_in_bytes' = total_in_bytes + st_size(pdfs[i])
               /\ on_exception("failed_promote", files, FALSE)
               /\ UNCHANGED <<ok, skipped, total_out_bytes>>
            \/ /\ pdfs[i] \in DOMAIN files
               /\ in_size' = st_size(pdfs[i])
               /\ out_tmp_size' = st_size(tmp_out)
               /\ total_in_bytes' = total_in_bytes + st_size(pdfs[i])
               /\ files' = unlink_quietly(files, out_pdf, FALSE)
               /\ pc' = IF copy_fallback(st_size(tmp_out), st_size(pdfs[i]))
                        THEN "copy" ELSE "rename"
               /\ UNCHANGED <<log_q, i, rc, ok, skipped, failed, total_out_bytes,
                              outcomes>>
    /\ UNCHANGED <<dirs, uiVars, stop_flag, argVars, runs, redirected, reached,
                   invoked, pre, ow_read, tool, done_put, ow_start, prev>>

\* line 334: shutil.copy2 opens the output path and starts writing
WorkerCopyOpen ==
    /\ pc = "copy"
    /\ files' = Put(files, out_pdf, Partial(files[pdfs[i]]))
    /\ pc' = "copying"
    /\ UNCHANGED <<dirs, uiVars, log_q, stop_flag, argVars, i, countVars, jobVars,
                   runs, histVars>>

\* lines 334-342: shutil.copy2 finishes (or fails half-way), the temporary
\* file is removed and the job is counted
WorkerCopyDone ==
    /\ pc = "copying"
    /\ \/ \* the copy fails half-way: what was written stays
          /\ on_exception("failed_promote", files, FALSE)
          /\ UNCHANGED <<ok, skipped, total_in_bytes, total_out_bytes>>
       \/ \* the copy is complete and tmp_out.unlink() raises
          /\ on_exception("failed_promote", Put(files, out_pdf, files[pdfs[i]]), TRUE)
          /\ UNCHANGED <<ok, skipped, total_in_bytes, total_out_bytes>>
       \/ /\ files' = Remove(Put(files, out_pdf, files[pdfs[i]]), tmp_out)
          /\ total_out_bytes' = total_out_bytes + copied_bytes(in_size, out_tmp_size)
          /\ ok' = ok + 1
          /\ log_q' = log_q \o << <<"log", "COPY">>, <<"progress", i>> >>
          /\ next_job("copied", Remove(Put(files, out_pdf, files[pdfs[i]]), tmp_out))
          /\ UNCHANGED <<skipped, failed, total_in_bytes>>
    /\ UNCHANGED <<dirs, uiVars, stop_flag, argVars, runs, redirected, reached,
                   invoked, pre, ow_read, tool, done_put, ow_start, prev>>

\* lines 347-355: the temporary file is renamed into place and the job counted
WorkerRename ==
    /\ pc = "rename"
    /\ \/ \* tmp_out.rename(out_pdf) raises
          /\ on_exception("failed_promote", files, FALSE)
          /\ UNCHANGED <<ok, skipped, total_in_bytes, total_out_bytes>>
       \/ /\ files' = Put(Remove(files, tmp_out), out_pdf, files[tmp_out])
          /\ total_out_bytes' = total_out_bytes + st_size(tmp_out)
          /\ ok' = ok + 1
          /\ log_q' = log_q \o << <<"log", "OK">>, <<"progress", i>> >>
          /\ next_job("compressed", Put(Remove(files, tmp_out), out_pdf, files[tmp_out]))
          /\ UNCHANGED <<skipped, failed, total_in_bytes>>
    /\ UNCHANGED <<dirs, uiVars, stop_flag, argVars, runs, redirected, reached,
                   invoked, pre, ow_read, tool, done_put, ow_start, prev>>

\* lines 303-305 and 377-378: the loop ends and the summary is put
max0(x) == IF x > 0 THEN x ELSE 0
WorkerSummary ==
    /\ pc = "loop" /\ (i > Len(pdfs) \/ stop_flag)
    /\ log_q' = Append(log_q, <<"done", <<ok, skipped, failed, Len(pdfs),
                    max0(total_in_bytes - total_out_bytes), total_in_bytes>> >>)
    /\ pc' = "ended"
    /\ done_put' = done_put + 1
    /\ UNCHANGED <<fsVars, uiVars, stop_flag, argVars, i, countVars, jobVars,
                   runs, redirected, reached, invoked, pre, ow_read, tool, outcomes,
                   ow_start, prev>>

Next ==
    \/ start \/ stop \/ toggle_overwrite \/ _poll_log_queue
    \/ WorkerLoop \/ WorkerMap \/ WorkerInvoke \/ WorkerCheck \/ WorkerCopyOpen
    \/ WorkerCopyDone \/ WorkerRename \/ WorkerSummary

Spec == Init /\ [][Next]_vars

\* ---------------------------------------------------- a session of two runs
\* the user presses Start again after a run has ended, having changed no
\* entry and no check box (overwrite stays enabled)
Repeated ==
    { Session(FOLDER_A, IN_DIR, IN_DIR, TRUE),
      Session(FOLDER_A @@ OLD_OUT, IN_DIR, OUT_DIR, TRUE),
      Session(FOLDER_AB, IN_DIR, OUT_DIR, TRUE) }

InitTwice == InitFrom(Repeated)

start_again == start_run(MaxRuns + 1)

NextTwice ==
    \/ start_again \/ stop \/ _poll_log_queue
    \/ WorkerLoop \/ WorkerMap \/ WorkerInvoke \/ WorkerCheck \/ WorkerCopyOpen
    \/ WorkerCopyDone \/ WorkerRename \/ WorkerSummary

SpecTwice == InitTwice /\ [][NextTwice]_vars

\* ------------------------------------------------------------- properties
Range(q) == {q[k] : k \in DOMAIN q}
Count(kinds) == Cardinality({k \in DOMAIN outcomes : outcomes[k].kind \in kinds})
FailedKinds == {"failed_tool", "failed_stat", "failed_promote"}
OkKinds == {"copied", "compressed"}
started == runs > 0
\* the worker is not in the middle of a file
between_files == started /\ ~in_job
\* the file handled last has just received its outcome
after_job == pc \in {"loop", "ended"} /\ outcomes # <<>>
last == outcomes[Len(outcomes)]

\* C1: every file the loop has reached has incremented exactly one of ok,
\* skipped, failed (so the three add up to the number of files reached and
\* each reached file has one recorded outcome), and when the summary is put
\* the three plus the files not reached add up to the number of files.
C1_OneOutcomePerFile ==
    between_files =>
        /\ ok + skipped + failed = reached
        /\ Len(outcomes) = reached
        /\ \A k \in DOMAIN outcomes : outcomes[k].idx = k
        /\ ok = Count(OkKinds) /\ skipped = Count({"skipped"})
        /\ failed = Count(FailedKinds)
        /\ (pc = "ended" =>
               ok + skipped + failed + (Len(pdfs) - reached) = Len(pdfs))

\* C5: a failure while one file is processed is counted as one Failed
\* outcome and logged, and the worker goes on: whenever the worker thread
\* has ended, it has ended through the summary, after every file was reached
\* or stop was requested, and every failure is in the failed counter.
C5_FailureNeverEndsWorker ==
    /\ between_files => failed = Count(FailedKinds)
    /\ (started /\ ~is_alive) =>
           /\ pc = "ended"
           /\ reached = Len(pdfs) \/ stop_flag
           /\ Len(outcomes) = reached

\* C6: every run puts exactly one summary event, after all its other events;
\* when the worker thread has ended the summary has been put, and once the
\* control surface has drained the queue Start is enabled and Stop disabled.
C6_SummaryThenButtons ==
    /\ done_put <= 1
    /\ has_done(log_q) => log_q[Len(log_q)][1] = "done"
    /\ (started /\ ~is_alive) => done_put = 1
    /\ (started /\ ~is_alive /\ log_q = <<>>) =>
           btn_start = "normal" /\ btn_stop = "disabled"

\* C7: when stop is requested while a file is being processed, that file
\* still gets its outcome and is counted, no further file is reached, and
\* from the next loop head on nothing is invoked, written or counted.
C7_StopTakesEffectAfterCurrentFile ==
    [][/\ (stop_flag /\ in_job) =>
             /\ reached' = reached
             /\ (~in_job' => /\ pc' = "loop"
                             /\ Len(outcomes') = Len(outcomes) + 1
                             /\ ok' + skipped' + failed' = ok + skipped + failed + 1)
       /\ (stop_flag /\ pc = "loop") =>
             UNCHANGED <<fsVars, invoked, reached, countVars, outcomes>>]_vars

\* C2: in a run whose output root _validate has redirected, no file's output
\* path is the path of an enumerated input file, and no output path lies
\* directly in the input root.
C2_RedirectKeepsInputsApart ==
    (is_alive /\ redirected) =>
        \A k \in DOMAIN pdfs :
            LET o == safe_output_path(out_dir, in_root, pdfs[k])
            IN  o \notin Range(pdfs) /\ Parent(o) # in_root

\* C8: the file at the output path of any file of the run is absent or
\* complete in every state.
C8_OutputNeverHalfWritten ==
    started =>
        \A k \in DOMAIN pdfs :
            LET o == safe_output_path(out_dir, in_root, pdfs[k])
            IN  o \in DOMAIN files => Complete(files[o])

\* the temporary path of the file handled last
last_tmp == with_suffix(last.out, TMP_SUFFIX)
\* the tool was invoked for the file handled last and returned 0
tool_ok == after_job /\ tool # <<>> /\ tool[1] = 0
\* what the tool wrote for the file handled last
tool_result == GsResult(pre[last.pdf], tool[2])
input_untouched == last.pdf \in DOMAIN files /\ files[last.pdf] = pre[last.pdf]

\* no filesystem call of the promotion of the file handled last has raised
no_oserror == last.kind \notin {"failed_stat", "failed_promote"}

\* C3 as claimed (read for the jobs in which no filesystem call raises):
\* after a job whose tool returned 0 with a temporary output smaller than
\* the input, the output path holds the tool's result and the input file is
\* unchanged.
C3_SmallerResultPromoted ==
    (tool_ok /\ tool[2] >= 0 /\ tool[2] < last.insz /\ no_oserror) =>
        /\ last.out \in DOMAIN files /\ files[last.out] = tool_result
        /\ input_untouched

\* C3 amended: after a job whose tool returned 0 with a non-empty temporary
\* output smaller than the input, the input file is unchanged, and unless a
\* filesystem call of the promotion raised (the job is then counted Failed)
\* the job is counted OK, the output path holds the tool's result and the
\* temporary path is free.
C3_NonEmptySmallerResultPromoted ==
    (tool_ok /\ tool[2] > 0 /\ tool[2] < last.insz) =>
        /\ input_untouched
        /\ no_oserror =>
              /\ last.kind = "compressed"
              /\ last.out \in DOMAIN files /\ files[last.out] = tool_result
              /\ last_tmp \notin DOMAIN files

C3_Witness ==
    /\ tool_ok /\ tool[2] > 0 /\ tool[2] < last.insz
    /\ last.kind = "compressed"
    /\ IsPrefix(in_root, out_dir)

\* C4 as claimed (read for the jobs in which no filesystem call raises and
\* the tool has written something): after a job whose tool returned 0 with
\* a temporary output not smaller than the input (of any size, zero
\* included), the output path holds a copy of the input and the temporary
\* file is gone.
C4_NotSmallerResultCopied ==
    (tool_ok /\ tool[2] > 0 /\ last.insz >= 0 /\ tool[2] >= last.insz
       /\ no_oserror) =>
        /\ last.out \in DOMAIN files /\ files[last.out] = pre[last.pdf]
        /\ last_tmp \notin DOMAIN files

\* C4 amended: after a job whose tool returned 0 with a temporary output not
\* smaller than a non-empty input, the job never puts the tool's result at
\* the output path, and unless a filesystem call of the promotion raised
\* (the job is then counted Failed) the job is counted OK, the output path
\* holds a copy of the input and the temporary file is gone.
C4_NotSmallerResultCopiedNonEmptyInput ==
    (tool_ok /\ last.insz > 0 /\ tool[2] >= last.insz) =>
        /\ (last.out \in DOMAIN files /\ files[last.out] = tool_result) =>
              (last.out \in DOMAIN pre /\ pre[last.out] = tool_result)
        /\ no_oserror =>
              /\ last.kind = "copied"
              /\ last.out \in DOMAIN files /\ files[last.out] = pre[last.pdf]
              /\ last_tmp \notin DOMAIN files

C4_Witness ==
    /\ tool_ok /\ last.insz > 0 /\ tool[2] >= last.insz
    /\ last.kind = "copied"

\* C9: a file whose output path existed when it was reached, with overwrite
\* off at the test of line 309, is counted Skipped, the tool is not invoked
\* for it and no file (output or temporary) is created, removed or changed.
C9_ExistingOutputSkipped ==
    (after_job /\ ow_read = FALSE
       /\ (last.out \in DOMAIN pre \/ last.out \in dirs)) =>
        /\ last.kind = "skipped"
        /\ invoked[last.idx] = 0
        /\ files = pre

C9_Witness ==
    /\ after_job /\ ow_read = FALSE /\ last.out \in DOMAIN pre
    /\ last.kind = "skipped" /\ skipped = 1

RECURSIVE SumIn(_, _), SumMade(_, _)
\* the input sizes of the outcomes of the given kinds
SumIn(q, kinds) ==
    IF q = <<>> THEN 0
    ELSE (IF Head(q).kind \in kinds THEN max0(Head(q).insz) ELSE 0)
         + SumIn(Tail(q), kinds)
\* the sizes of the outputs produced by the outcomes of the given kinds
SumMade(q, kinds) ==
    IF q = <<>> THEN 0
    ELSE (IF Head(q).kind \in kinds THEN max0(Head(q).made) ELSE 0)
         + SumMade(Tail(q), kinds)

\* C10 as claimed: at the end of a run total_in_bytes is the sum of the input
\* sizes of all non-skipped files, Failed ones included, and total_out_bytes
\* the sum of the sizes of all outputs the run has produced.
C10_TotalsCoverAttemptedJobs ==
    pc = "ended" =>
        /\ total_in_bytes = SumIn(outcomes, OkKinds \cup FailedKinds)
        /\ total_out_bytes = SumMade(outcomes, OkKinds \cup FailedKinds)

\* C10 amended: at the end of a run total_in_bytes is the sum of the input
\* sizes of the files counted OK and of the files that failed during the
\* promotion (after their size was read); files whose invocation failed and
\* skipped files add nothing.  total_out_bytes is the sum, over the files
\* counted OK, of the size of the output the job produced.
C10_TotalsCoverPromotedJobs ==
    pc = "ended" =>
        /\ total_in_bytes = SumIn(outcomes, OkKinds \cup {"failed_promote"})
        /\ total_out_bytes = SumMade(outcomes, OkKinds)

C10_Witness ==
    /\ pc = "ended"
    /\ Count({"copied"}) = 1 /\ Count({"compressed"}) = 1

\* the size of the file at path p on disk f, -1 when there is none
size_at(f, p) == IF p \in DOMAIN f THEN f[p].size ELSE -1

\* a run that handled every file of its list with overwrite enabled and in
\* which no filesystem call raised
undisturbed(q, list) ==
    /\ Len(q) = Len(list)
    /\ \A k \in DOMAIN q : q[k].ow /\ q[k].kind \notin {"failed_stat", "failed_promote"}

\* the second run has ended; both runs were undisturbed, the input files of
\* the first run are unchanged and the tool has given for each of them the
\* result it gave in the first run
ran_twice ==
    /\ pc = "ended" /\ prev # <<>>
    /\ undisturbed(prev.outcomes, prev.pdfs) /\ undisturbed(outcomes, pdfs)
    /\ \A k \in DOMAIN prev.pdfs :
          /\ prev.pdfs[k] \in DOMAIN prev.files /\ prev.pdfs[k] \in DOMAIN files
          /\ files[prev.pdfs[k]] = prev.files[prev.pdfs[k]]
    /\ \A j \in DOMAIN outcomes, k \in DOMAIN prev.outcomes :
          outcomes[j].pdf = prev.outcomes[k].pdf =>
              outcomes[j].tool = prev.outcomes[k].tool

\* C11: after a second run with the same roots, a deterministic tool,
\* overwrite enabled and unchanged inputs, every output path of the first run
\* holds a file of the size it had after the first run, and the second run
\* reports the counts of the first.
C11_SecondRunRepeatsFirst ==
    ran_twice =>
        /\ <<ok, skipped, failed>> = prev.counts
        /\ \A k \in DOMAIN prev.outcomes :
              size_at(files, prev.outcomes[k].out)
                  = size_at(prev.files, prev.outcomes[k].out)

\* the output path and the temporary path of the k-th file of the run
out_of(k) == safe_output_path(out_dir, in_root, pdfs[k])
tmp_of(k) == with_suffix(out_of(k), TMP_SUFFIX)

\* C12: within a run the temporary path of a job is never the output path of
\* a job, and every file that a job counted OK has left as its output is
\* still at its output path as long as no later job has the same output path.
C12_TemporaryPathNeverAnOutput ==
    started =>
        /\ \A j \in DOMAIN pdfs, k \in DOMAIN pdfs : tmp_of(j) # out_of(k)
        /\ between_files =>
              \A k \in DOMAIN outcomes :
                  (/\ outcomes[k].kind \in OkKinds
                   /\ \A j \in DOMAIN outcomes : j > k => outcomes[j].out # outcomes[k].out)
                      => outcomes[k].out \in DOMAIN files

\* C13: the overwrite policy applied to every file of a run is the one in
\* force when the run was started: a file whose output path held a file when
\* it was reached is skipped exactly when overwrite was off at the start, and
\* the worker has read the value the check box had at the start.
C13_PolicyFixedAtStart ==
    (after_job /\ last.out \in DOMAIN pre) =>
        /\ last.ow = ow_start
        /\ last.kind = "skipped" <=> ~ow_start

\* the events a step has put on the queue
put_by_step == SubSeq(log_q', Len(log_q) + 1, Len(log_q'))
of_kind(q, kind) == {k \in DOMAIN q : q[k][1] = kind}
\* the step ends the handling of a file
leaves_job == in_job /\ ~in_job'

\* C14: the step that ends the handling of the i-th file has put exactly one
\* progress event, carrying i, and at least one log event; no other step of
\* the worker puts a progress event; the progress values on the queue are
\* strictly increasing; and when the control surface consumes the summary
\* the progress bar shows the number of files that have an outcome.
C14_OneProgressEventPerFile ==
    [][/\ leaves_job =>
             /\ log_q' = log_q \o put_by_step
             /\ \E k \in DOMAIN put_by_step :
                   /\ of_kind(put_by_step, "progress") = {k}
                   /\ put_by_step[k][2] = i
             /\ of_kind(put_by_step, "log") # {}
       /\ (is_alive /\ ~leaves_job /\ pc' # pc) =>
             (Len(log_q') >= Len(log_q) /\ of_kind(put_by_step, "progress") = {})
       /\ \A j \in of_kind(log_q', "progress"), k \in of_kind(log_q', "progress") :
             j < k => log_q'[j][2] < log_q'[k][2]
       /\ (has_done(log_q) /\ log_q' = <<>>) =>
             (progress_value' = Len(outcomes) /\ Len(outcomes) = reached)]_vars

\* C15: after a job that was counted Failed, a file that was at the job's
\* output path when the job started is still there, unchanged.
C15_FailedJobKeepsPreviousOutput ==
    (after_job /\ last.kind \in FailedKinds /\ last.out \in DOMAIN pre) =>
        (last.out \in DOMAIN files /\ files[last.out] = pre[last.out])

\* the saving the summary event of the run reports
reported_saving == log_q[Len(log_q)][2][5]
\* what the run has really saved: over the files counted OK, input size
\* minus size of the output produced
real_reduction == SumIn(outcomes, OkKinds) - SumMade(outcomes, OkKinds)

\* C16 (read for the runs whose real reduction is not negative, the reported
\* value being cut off at zero): the saving reported by the summary never
\* exceeds the real reduction of the run, so a file counted Failed adds
\* nothing to it.
C16_SavingNeverOverstated ==
    (pc = "ended" /\ has_done(log_q) /\ real_reduction >= 0) =>
        reported_saving <= real_reduction

====
